---- MODULE Spec2Model ----
(***************************************************************************)
(* The knowledge-base tools of thoughtly_connectivity:                     *)
(*   LightRAGTool       (backend/src/agents/tools/lightrag_tool.py)        *)
(*   Neo4jThoughtTools  (backend/src/agents/tools/neo_4j_tool.py)          *)
(* and the agent protocol that drives them (backend/src/agents/            *)
(* Light_agent.py).  Weights are written in tenths: 5 is 0.5, 15 is 1.5.   *)
(* A run drives one toolkit object; `tool` records which.                  *)
(***************************************************************************)
EXTENDS Integers, Sequences, FiniteSets, TLC

VARIABLES
    tool,             \* "lightrag" or "neo4j": the toolkit object this run drives
    rag_instance,     \* LightRAGTool.rag_instance: "unset" (attribute never assigned), "none", "inst"
    is_initialized,   \* LightRAGTool.is_initialized
    kg_nodes,         \* LightRAG graph store: entity name -> attributes
    kg_edges,         \* LightRAG graph store: set of [src, tgt, weight]
    driver,           \* Neo4jThoughtTools.driver: "none" or "driver"
    neo_initialized,  \* Neo4jThoughtTools.is_initialized
    constraint,       \* the database holds the constraint thought_id_unique
    thoughts,         \* Neo4j nodes (:Thought): set of [nid, id, content, timestamp]
    rels,             \* Neo4j relationships: set of [src, tgt, type, weight, props]
    clock,            \* the database's datetime()
    last,             \* what the last tool call returned: [op, kind, raised, touched]
    nOps,             \* number of data operations issued so far
    merge_run,        \* a merge_entities call in progress, step by step
    agents,           \* the LightRAG agents' runs: what each checked and did
    lifecycle,        \* the connection's history: "Uninitialized", "Connected", "Closed"
    docs,             \* LightRAG document store: document id -> text content
    answer,           \* the texts the last retrieval was answered from
    pc,               \* PineconeTools._pc: "none" or "client"
    index,            \* PineconeTools._index: "none" or "index"
    vectors,          \* Pinecone index: namespace -> (vector id -> record)
    registry,         \* main.py initialized_lightrag_tools: user_id -> the request whose tool is registered
    requests          \* /initialize/ requests in flight: [user, pc, tool]

lrVars == <<rag_instance, is_initialized, kg_nodes, kg_edges>>
neoVars == <<driver, neo_initialized, constraint, thoughts, rels, clock>>
storeVars == <<lifecycle, docs, answer, pc, index, vectors>>
serverVars == <<registry, requests>>
auxVars == <<merge_run, agents, lifecycle, docs, answer, pc, index, vectors,
             registry, requests>>
vars == <<tool, rag_instance, is_initialized, kg_nodes, kg_edges,
          driver, neo_initialized, constraint, thoughts, rels, clock, last, nOps,
          merge_run, agents, lifecycle, docs, answer, pc, index, vectors,
          registry, requests>>

-----------------------------------------------------------------------------
(* Bounds and input domains *)

MaxOps == 2          \* data operations per run
MaxDescLen == 2      \* longest description, in text pieces
MaxEdges == 3        \* relations held by the LightRAG graph
MaxThoughts == 3     \* nodes held by the Neo4j database
MaxRels == 2         \* relationships held by the Neo4j database

None == "<None>"
Ids == {"A", "B", "C"}
Names == Ids \cup {""}                 \* "" is the empty string a caller may pass
DescIn == {None, "d"}                  \* description argument
TypeIn == {None, "Concept"}            \* entity_type argument
Weights == {5, 15}                     \* 0.5 and 1.5
ThoughtIds == {"A", "B", ""}            \* ids a caller may name; "" asks add_thought for a uuid
ThoughtIdIn == ThoughtIds \cup {"Thought"}   \* "Thought": add_thought's default thought_id
Uuids == {"u1", "u2", "u3", "u4"}      \* values of uuid.uuid4()
Contents == {"c1", "c2", ""}                \* "" is the empty string
RelTypes == {"RELATED_TO", "CAUSES"}
PropsIn == {None, "p"}                 \* properties: None, or {"note": "p"}
SourceLists == {<<a>> : a \in Ids} \cup {<<a, b>> : a \in Ids, b \in Ids}

\* a Python str as a sequence of text pieces; "" is the empty sequence
Text(s) == IF s = "" THEN << >> ELSE <<s>>

\* `x or default`
\* self.name_space, the constructor's default; the namespace a call with
\* namespace=None addresses is the index's default namespace ""
name_space == "AI-Reflections"
Namespaces == {name_space, ""}
NamespaceIn == {None, name_space}      \* namespace argument
Ns(namespace) == IF namespace = None THEN "" ELSE namespace

NoVectors == [ns \in Namespaces |-> << >>]

Or(x, default) == IF x = None \/ x = "" THEN default ELSE x

Result(op, kind, raised, touched) ==
    [op |-> op, kind |-> kind, raised |-> raised, touched |-> touched]

RECURSIVE SeqToSet(_)
SeqToSet(s) == IF s = << >> THEN {} ELSE {Head(s)} \cup SeqToSet(Tail(s))

-----------------------------------------------------------------------------
(* The graph store behind LightRAGTool (the calls on self.rag_instance):   *)
(* what the wrapper's calls are documented to do.                          *)

has_node(nodes, n) == n \in DOMAIN nodes

has_edge(edges, s, t) == \E e \in edges : e.src = s /\ e.tgt = t

upsert_node(nodes, n, data) ==
    [m \in DOMAIN nodes \cup {n} |-> IF m = n THEN data ELSE nodes[m]]

remove_node(nodes, n) == [m \in DOMAIN nodes \ {n} |-> nodes[m]]

\* a delete that drops only the edges leaving the node
outgoing_edges(edges, n) == {e \in edges : e.src = n}

\* delete_node: the node and every edge incident to it, in either direction
incident_edges(edges, n) == {e \in edges : e.src = n \/ e.tgt = n}

\* keep, per (src, tgt), the edge of the highest weight
HigherWeight(edges) ==
    {e \in edges : \A f \in edges :
        (f.src = e.src /\ f.tgt = e.tgt) => f.weight <= e.weight}

\* rewrite every edge end that names `n` to name `target`
redirect_edges(edges, n, target) ==
    HigherWeight({[src |-> IF e.src = n THEN target ELSE e.src,
                   tgt |-> IF e.tgt = n THEN target ELSE e.tgt,
                   weight |-> e.weight] : e \in edges})

RECURSIVE ConcatDescriptions(_, _)
ConcatDescriptions(nodes, names) ==
    IF names = << >> THEN << >>
    ELSE nodes[Head(names)].description \o ConcatDescriptions(nodes, Tail(names))

RECURSIVE Dedup(_)
Dedup(s) ==
    IF s = << >> THEN << >>
    ELSE <<Head(s)>> \o Dedup(SelectSeq(Tail(s), LAMBDA x : x # Head(s)))

\* the entities whose attributes a merge combines: the sources, then the
\* target when it exists already and is not itself a source
MergeInputs(nodes, sources, target) ==
    LET ds == Dedup(sources)
    IN  IF has_node(nodes, target) /\ target \notin SeqToSet(ds)
        THEN Append(ds, target) ELSE ds

merge_attributes(nodes, sources, target) ==
    LET ins == MergeInputs(nodes, sources, target)
    IN  [description |-> ConcatDescriptions(nodes, ins),
         entity_type |-> nodes[Head(ins)].entity_type,
         source_id   |-> UNION {nodes[n].source_id : n \in SeqToSet(ins)}]

\* the steps of a merge, each atomic at the level of one node or one node's edges
MergeUpsertTarget(nodes, sources, target) ==
    upsert_node(nodes, target, merge_attributes(nodes, sources, target))

RECURSIVE RedirectAll(_, _, _)
RedirectAll(edges, sources, target) ==
    IF sources = << >> THEN edges
    ELSE RedirectAll(redirect_edges(edges, Head(sources), target), Tail(sources), target)

RECURSIVE RemoveAll(_, _, _)
RemoveAll(nodes, sources, target) ==
    IF sources = << >> THEN nodes
    ELSE RemoveAll(IF Head(sources) = target THEN nodes ELSE remove_node(nodes, Head(sources)),
                   Tail(sources), target)

\* a merge that redirects the edges and leaves the source nodes in place
amerge_keep_sources(nodes, edges, sources, target) ==
    [nodes |-> MergeUpsertTarget(nodes, sources, target),
     edges |-> RedirectAll(edges, Dedup(sources), target)]

amerge_entities(nodes, edges, sources, target) ==
    [nodes |-> RemoveAll(MergeUpsertTarget(nodes, sources, target), Dedup(sources), target),
     edges |-> RedirectAll(edges, Dedup(sources), target)]

-----------------------------------------------------------------------------
(* LightRAGTool *)

\* _ensure_rag_ready: "ok", or the exception it ends in
ensure_rag_ready ==
    IF rag_instance = "unset" THEN "AttributeError"
    ELSE IF rag_instance = "none" \/ ~is_initialized THEN "NotReady"
    ELSE "ok"

NotReadyResult(op) == Result(op, ensure_rag_ready, TRUE, FALSE)

DataOp(op) ==
    /\ tool = "lightrag"
    /\ nOps < MaxOps
    /\ nOps' = nOps + 1
    /\ UNCHANGED <<tool, rag_instance, is_initialized>>
    /\ UNCHANGED neoVars

initialize(up) ==
    /\ tool = "lightrag"
    /\ UNCHANGED <<tool, rag_instance, kg_nodes, kg_edges, nOps>>
    /\ UNCHANGED neoVars
    /\ IF is_initialized
       THEN /\ last' = Result("initialize", "already", FALSE, FALSE)
            /\ UNCHANGED is_initialized
       ELSE IF rag_instance = "unset"
       THEN /\ last' = Result("initialize", "AttributeError", TRUE, FALSE)
            /\ UNCHANGED is_initialized
       ELSE IF rag_instance = "none"
       THEN /\ last' = Result("initialize", "NotCreated", FALSE, FALSE)
            /\ UNCHANGED is_initialized
       ELSE IF up
       THEN /\ is_initialized' = TRUE
            /\ last' = Result("initialize", "ok", FALSE, TRUE)
       ELSE /\ is_initialized' = FALSE
            /\ last' = Result("initialize", "Unavailable", FALSE, TRUE)

finalize(up) ==
    /\ tool = "lightrag"
    /\ UNCHANGED <<tool, rag_instance, kg_nodes, kg_edges, nOps>>
    /\ UNCHANGED neoVars
    /\ IF ~is_initialized
       THEN /\ last' = Result("finalize", "skipped", FALSE, FALSE)
            /\ UNCHANGED is_initialized
       ELSE IF rag_instance # "inst"
       THEN /\ last' = Result("finalize", "NotCreated", FALSE, FALSE)
            /\ UNCHANGED is_initialized
       ELSE /\ is_initialized' = FALSE
            /\ last' = Result("finalize", IF up THEN "ok" ELSE "Unavailable", FALSE, TRUE)

\* the early returns every KG operation shares: not ready, bad argument,
\* store not answering; `body` is what the call does otherwise
Guarded(op, badArgument, up, body) ==
    /\ DataOp(op)
    /\ IF ensure_rag_ready # "ok"
       THEN /\ last' = NotReadyResult(op)
            /\ UNCHANGED <<kg_nodes, kg_edges>>
       ELSE IF badArgument
       THEN /\ last' = Result(op, "InvalidArgument", FALSE, FALSE)
            /\ UNCHANGED <<kg_nodes, kg_edges>>
       ELSE IF ~up
       THEN /\ last' = Result(op, "Unavailable", FALSE, TRUE)
            /\ UNCHANGED <<kg_nodes, kg_edges>>
       ELSE body

Returns(op, kind) ==
    /\ last' = Result(op, kind, FALSE, TRUE)
    /\ UNCHANGED <<kg_nodes, kg_edges>>

\* create_entity storing the arguments as given, without their defaults
create_entity_no_defaults(entity_name, description, entity_type, up) ==
    Guarded("create_entity", entity_name = "", up,
            IF has_node(kg_nodes, entity_name)
            THEN Returns("create_entity", "AlreadyExists")
            ELSE /\ kg_nodes' = upsert_node(kg_nodes, entity_name,
                                   [description |-> Text(Or(description, "")),
                                    entity_type |-> entity_type,
                                    source_id   |-> {"manual"}])
                 /\ last' = Result("create_entity", "ok", FALSE, TRUE)
                 /\ UNCHANGED kg_edges)

create_entity(entity_name, description, entity_type, up) ==
    Guarded("create_entity", entity_name = "", up,
            IF has_node(kg_nodes, entity_name)
            THEN Returns("create_entity", "AlreadyExists")
            ELSE /\ kg_nodes' = upsert_node(kg_nodes, entity_name,
                                   [description |-> Text(Or(description, "")),
                                    entity_type |-> Or(entity_type, "UNKNOWN"),
                                    source_id   |-> {"manual"}])
                 /\ last' = Result("create_entity", "ok", FALSE, TRUE)
                 /\ UNCHANGED kg_edges)

\* updates: [description, entity_name], None for a key the dict does not hold
EntityUpdates == [description : DescIn, entity_name : Ids \cup {None}]

rename_edges(edges, old, new) ==
    {[src |-> IF e.src = old THEN new ELSE e.src,
      tgt |-> IF e.tgt = old THEN new ELSE e.tgt,
      weight |-> e.weight] : e \in edges}

edit_entity(entity_name, updates, allow_rename, up) ==
    Guarded("edit_entity",
            entity_name = "" \/ (updates.description = None /\ updates.entity_name = None),
            up,
            LET new_name == Or(updates.entity_name, entity_name)
                data == IF updates.description = None THEN kg_nodes[entity_name]
                        ELSE [kg_nodes[entity_name] EXCEPT
                                  !.description = Text(updates.description)]
            IN  IF ~has_node(kg_nodes, entity_name)
                THEN Returns("edit_entity", "NotFound")
                ELSE IF new_name # entity_name /\ ~allow_rename
                THEN Returns("edit_entity", "InvalidArgument")
                ELSE IF new_name # entity_name /\ has_node(kg_nodes, new_name)
                THEN Returns("edit_entity", "AlreadyExists")
                ELSE /\ kg_nodes' = upsert_node(remove_node(kg_nodes, entity_name),
                                                new_name, data)
                     /\ kg_edges' = rename_edges(kg_edges, entity_name, new_name)
                     /\ last' = Result("edit_entity", "ok", FALSE, TRUE))

delete_entity(entity_name, up) ==
    Guarded("delete_entity", entity_name = "", up,
            /\ kg_nodes' = remove_node(kg_nodes, entity_name)
            /\ kg_edges' = kg_edges \ incident_edges(kg_edges, entity_name)
            /\ last' = Result("delete_entity", "ok", FALSE, TRUE))

create_relation(source_entity, target_entity, weight, up) ==
    Guarded("create_relation", source_entity = "" \/ target_entity = "", up,
            IF ~has_node(kg_nodes, source_entity) \/ ~has_node(kg_nodes, target_entity)
            THEN Returns("create_relation", "NotFound")
            ELSE IF has_edge(kg_edges, source_entity, target_entity)
            THEN Returns("create_relation", "AlreadyExists")
            ELSE /\ Cardinality(kg_edges) < MaxEdges
                 /\ kg_edges' = kg_edges \cup
                        {[src |-> source_entity, tgt |-> target_entity, weight |-> weight]}
                 /\ last' = Result("create_relation", "ok", FALSE, TRUE)
                 /\ UNCHANGED kg_nodes)

\* updates: <<w>> for {"weight": w}, << >> for an empty dict
WeightUpdates == {<< >>} \cup {<<w>> : w \in Weights}

edit_relation(source_entity, target_entity, updates, up) ==
    Guarded("edit_relation",
            source_entity = "" \/ target_entity = "" \/ updates = << >>, up,
            IF ~has_edge(kg_edges, source_entity, target_entity)
            THEN Returns("edit_relation", "NotFound")
            ELSE /\ kg_edges' =
                        {IF e.src = source_entity /\ e.tgt = target_entity
                         THEN [e EXCEPT !.weight = updates[1]] ELSE e : e \in kg_edges}
                 /\ last' = Result("edit_relation", "ok", FALSE, TRUE)
                 /\ UNCHANGED kg_nodes)

delete_relation(source_entity, target_entity, up) ==
    Guarded("delete_relation", source_entity = "" \/ target_entity = "", up,
            /\ kg_edges' = {e \in kg_edges :
                                ~(e.src = source_entity /\ e.tgt = target_entity)}
            /\ last' = Result("delete_relation", "ok", FALSE, TRUE)
            /\ UNCHANGED kg_nodes)

\* merge_entities without the check that the target is not the lone source
merge_entities_unchecked(source_entities, target_entity, up) ==
    Guarded("merge_entities",
            source_entities = << >> \/ target_entity = "",
            up,
            IF \E i \in 1..Len(source_entities) : ~has_node(kg_nodes, source_entities[i])
            THEN Returns("merge_entities", "NotFound")
            ELSE LET g == amerge_entities(kg_nodes, kg_edges, source_entities, target_entity)
                 IN  /\ Len(g.nodes[target_entity].description) <= MaxDescLen
                     /\ kg_nodes' = g.nodes
                     /\ kg_edges' = g.edges
                     /\ last' = Result("merge_entities", "ok", FALSE, TRUE))

merge_entities(source_entities, target_entity, up) ==
    Guarded("merge_entities",
            \/ source_entities = << >>
            \/ target_entity = ""
            \/ (target_entity \in SeqToSet(source_entities) /\ Len(source_entities) = 1),
            up,
            IF \E i \in 1..Len(source_entities) : ~has_node(kg_nodes, source_entities[i])
            THEN Returns("merge_entities", "NotFound")
            ELSE LET g == amerge_entities(kg_nodes, kg_edges, source_entities, target_entity)
                 IN  /\ Len(g.nodes[target_entity].description) <= MaxDescLen
                     /\ kg_nodes' = g.nodes
                     /\ kg_edges' = g.edges
                     /\ last' = Result("merge_entities", "ok", FALSE, TRUE))

get_entity_details(entity_name, up) ==
    Guarded("get_entity_details", entity_name = "", up,
            Returns("get_entity_details",
                    IF has_node(kg_nodes, entity_name) THEN "ok" ELSE "NotFound"))

get_relation_details(source_entity, target_entity, up) ==
    Guarded("get_relation_details", source_entity = "" \/ target_entity = "", up,
            Returns("get_relation_details",
                    IF has_edge(kg_edges, source_entity, target_entity)
                    THEN "ok" ELSE "NotFound"))

-----------------------------------------------------------------------------
(* Neo4jThoughtTools *)

\* _ensure_initialized
ensure_initialized == neo_initialized /\ driver # "none"

NeoOp(op) ==
    /\ tool = "neo4j"
    /\ nOps < MaxOps
    /\ nOps' = nOps + 1
    /\ UNCHANGED <<tool, driver, neo_initialized, constraint>>
    /\ UNCHANGED lrVars

NeoReturns(op, kind, touched) ==
    /\ last' = Result(op, kind, FALSE, touched)
    /\ UNCHANGED <<thoughts, rels, clock>>

\* outcome: "ok", "no_driver" (GraphDatabase.driver raises) or
\* "no_connection" (verify_connectivity or the constraint query raises)
initialize_connection(outcome) ==
    /\ tool = "neo4j"
    /\ UNCHANGED <<tool, thoughts, rels, clock, nOps>>
    /\ UNCHANGED lrVars
    /\ driver' = IF outcome = "no_driver" THEN driver ELSE "driver"
    /\ constraint' = (constraint \/ outcome = "ok")
    /\ neo_initialized' = (neo_initialized \/ outcome = "ok")
    /\ last' = Result("initialize_connection",
                      IF outcome = "ok" THEN "ok" ELSE "Unavailable",
                      FALSE, outcome # "no_driver")

\* a database on which the constraint thought_id_unique was never created
ConstraintAbsent(id) == FALSE

\* CREATE (t:Thought {id: ...}) under the constraint thought_id_unique
ConstraintViolated(id) == constraint /\ \E t \in thoughts : t.id = id

FreshNid == CHOOSE n \in 1..(MaxThoughts + MaxOps + 2) : \A t \in thoughts : t.nid # n

\* str(uuid.uuid4()): a value no thought carries yet
uuid4 == CHOOSE u \in Uuids : \A t \in thoughts : t.id # u

add_thought(content, thought_id, up) ==
    /\ NeoOp("add_thought")
    /\ IF ~ensure_initialized
       THEN NeoReturns("add_thought", "NotReady", FALSE)
       ELSE LET id == IF thought_id = "" THEN uuid4 ELSE thought_id IN
            IF ~up
            THEN NeoReturns("add_thought", "Unavailable", TRUE)
            ELSE IF ConstraintViolated(id)
            THEN NeoReturns("add_thought", "AlreadyExists", TRUE)
            ELSE /\ Cardinality(thoughts) < MaxThoughts
                 /\ thoughts' = thoughts \cup
                        {[nid |-> FreshNid, id |-> id, content |-> content,
                          timestamp |-> clock]}
                 /\ clock' = clock + 1
                 /\ last' = Result("add_thought", "ok", FALSE, TRUE)
                 /\ UNCHANGED rels

\* MERGE (source)-[r:`type` {weight: w, ...props}]->(target): an existing
\* relationship matches when it has the type and every property of the pattern
MergeMatches(r, s, t, type, weight, props) ==
    /\ r.src = s.nid /\ r.tgt = t.nid /\ r.type = type
    /\ r.weight = weight
    /\ (props = None \/ r.props = props)

\* a query that matches the source thought only
MatchRowsSourceOnly(source_id, target_id) ==
    {st \in thoughts \X thoughts : st[1].id = source_id}

\* MATCH (source:Thought {id: $source_id}) MATCH (target:Thought {id: $target_id})
MatchRows(source_id, target_id) ==
    {source \in thoughts : source.id = source_id}
        \X {target \in thoughts : target.id = target_id}

connect_thoughts(source_id, target_id, relationship_type, weight, properties, up) ==
    /\ NeoOp("connect_thoughts")
    /\ IF ~ensure_initialized
       THEN NeoReturns("connect_thoughts", "NotReady", FALSE)
       ELSE IF ~up
       THEN NeoReturns("connect_thoughts", "Unavailable", TRUE)
       ELSE LET rows == MatchRows(source_id, target_id)
                new == {[src |-> st[1].nid, tgt |-> st[2].nid,
                         type |-> relationship_type, weight |-> weight,
                         props |-> properties] : st \in
                            {st \in rows : ~\E r \in rels :
                                MergeMatches(r, st[1], st[2], relationship_type,
                                             weight, properties)}}
            IN  IF rows = {}
                THEN NeoReturns("connect_thoughts", "NotFound", TRUE)
                ELSE /\ last' = Result("connect_thoughts", "ok", FALSE, TRUE)
                     /\ Cardinality(rels \cup new) <= MaxRels
                     /\ rels' = rels \cup new
                     /\ UNCHANGED <<thoughts, clock>>

get_thought(thought_id, up) ==
    /\ NeoOp("get_thought")
    /\ IF ~ensure_initialized
       THEN NeoReturns("get_thought", "NotReady", FALSE)
       ELSE IF ~up
       THEN NeoReturns("get_thought", "Unavailable", TRUE)
       ELSE NeoReturns("get_thought",
                       IF \E t \in thoughts : t.id = thought_id THEN "ok" ELSE "NotFound",
                       TRUE)

-----------------------------------------------------------------------------
(* What the stores may hold when a tool object is constructed: nothing, or *)
(* what an earlier session left in the working directory / the database.   *)

SeedNodes ==
    [n \in Ids |->
        [description |-> IF n = "C" THEN << >> ELSE <<"d">>,
         entity_type |-> IF n = "A" THEN "Concept" ELSE "UNKNOWN",
         source_id   |-> {"manual"}]]

SeedEdges == {[src |-> "A", tgt |-> "C", weight |-> 5],
              [src |-> "B", tgt |-> "C", weight |-> 10]}

SeedThoughts == {[nid |-> 1, id |-> "A", content |-> "c1", timestamp |-> 0],
                 [nid |-> 2, id |-> "B", content |-> "c2", timestamp |-> 1]}

InitLightRAG ==
    /\ tool = "lightrag"
    /\ rag_instance \in {"unset", "none", "inst"}
    /\ is_initialized = FALSE
    /\ \/ kg_nodes = << >> /\ kg_edges = {}
       \/ kg_nodes = SeedNodes /\ kg_edges = SeedEdges
    /\ driver = "none" /\ neo_initialized = FALSE /\ constraint = FALSE
    /\ thoughts = {} /\ rels = {} /\ clock = 0
    /\ last = Result("construct", "ok", FALSE, FALSE)
    /\ nOps = 0

\* Neo4jThoughtTools.__init__ ends with a call of initialize_connection
InitNeo4j ==
    /\ tool = "neo4j"
    /\ rag_instance = "unset" /\ is_initialized = FALSE
    /\ kg_nodes = << >> /\ kg_edges = {}
    /\ \E outcome \in {"ok", "no_driver", "no_connection"} :
          /\ driver = IF outcome = "no_driver" THEN "none" ELSE "driver"
          /\ neo_initialized = (outcome = "ok")
          /\ \/ thoughts = {} /\ clock = 0 /\ constraint = (outcome = "ok")
             \/ thoughts = SeedThoughts /\ clock = 2 /\ constraint = TRUE
    /\ rels = {}
    /\ last = Result("construct", "ok", FALSE, FALSE)
    /\ nOps = 0

NoMerge == [phase |-> "idle"]

\* no documents, no Pinecone client; the connection's history is not followed
NoStore ==
    /\ lifecycle = "untracked"
    /\ docs = << >> /\ answer = {}
    /\ pc = "none" /\ index = "none" /\ vectors = NoVectors

Agents == {"a1", "a2"}
NoAgents == [a \in Agents |-> [pc |-> "idle"]]

Users == {"alice", "bob"}
Requests == {"r1", "r2", "r3"}

\* no /initialize/ request was received
NoRequests == [r \in Requests |-> [user |-> "none", pc |-> "idle", tool |-> "none"]]

NoServer == registry = [u \in Users |-> "none"] /\ requests = NoRequests

Init ==
    /\ InitLightRAG \/ InitNeo4j
    /\ merge_run = NoMerge
    /\ agents = NoAgents
    /\ NoStore /\ NoServer

Next ==
    \/ \E up \in BOOLEAN : initialize(up)
          /\ UNCHANGED auxVars
    \/ \E up \in BOOLEAN : finalize(up)
          /\ UNCHANGED auxVars
    \/ \E n \in Names, d \in DescIn, t \in TypeIn, up \in BOOLEAN : create_entity(n, d, t, up)
          /\ UNCHANGED auxVars
    \/ \E n \in Names, u \in EntityUpdates, r \in BOOLEAN, up \in BOOLEAN : edit_entity(n, u, r, up)
          /\ UNCHANGED auxVars
    \/ \E n \in Names, up \in BOOLEAN : delete_entity(n, up)
          /\ UNCHANGED auxVars
    \/ \E s \in Names, t \in Names, w \in Weights, up \in BOOLEAN : create_relation(s, t, w, up)
          /\ UNCHANGED auxVars
    \/ \E s \in Names, t \in Names, u \in WeightUpdates, up \in BOOLEAN : edit_relation(s, t, u, up)
          /\ UNCHANGED auxVars
    \/ \E s \in Names, t \in Names, up \in BOOLEAN : delete_relation(s, t, up)
          /\ UNCHANGED auxVars
    \/ \E ss \in SourceLists \cup {<< >>}, t \in Names, up \in BOOLEAN : merge_entities(ss, t, up)
          /\ UNCHANGED auxVars
    \/ \E n \in Names, up \in BOOLEAN : get_entity_details(n, up)
          /\ UNCHANGED auxVars
    \/ \E s \in Names, t \in Names, up \in BOOLEAN : get_relation_details(s, t, up)
          /\ UNCHANGED auxVars
    \/ \E o \in {"ok", "no_driver", "no_connection"} : initialize_connection(o)
          /\ UNCHANGED auxVars
    \/ \E c \in Contents, i \in ThoughtIdIn, up \in BOOLEAN : add_thought(c, i, up)
          /\ UNCHANGED auxVars
    \/ \E s \in ThoughtIds, t \in ThoughtIds, ty \in RelTypes, w \in Weights,
          pr \in PropsIn, up \in BOOLEAN : connect_thoughts(s, t, ty, w, pr, up)
          /\ UNCHANGED auxVars
    \/ \E i \in ThoughtIds, up \in BOOLEAN : get_thought(i, up)
          /\ UNCHANGED auxVars

Spec == Init /\ [][Next]_vars
-----------------------------------------------------------------------------
(* merge_entities step by step.  The wrapper awaits one library call and   *)
(* holds no transaction: a cancellation (CancelledError is not an          *)
(* Exception) or a crash leaves whatever steps were applied, and a retry   *)
(* is a fresh merge_entities call with the same arguments.                 *)

\* the steps after the checks: the target node, then each source's edges,
\* then each source node
MergePlan(sources, target) ==
    LET ds == Dedup(sources)
    IN  <<[step |-> "upsert_target", node |-> target]>>
        \o [i \in 1..Len(ds) |-> [step |-> "redirect", node |-> ds[i]]]
        \o [i \in 1..Len(ds) |-> [step |-> "delete", node |-> ds[i]]]

MergeRejected(sources, target) ==
    IF target \in SeqToSet(sources) /\ Len(sources) = 1 THEN "InvalidArgument"
    ELSE IF \E n \in SeqToSet(sources) : ~has_node(kg_nodes, n) THEN "NotFound"
    ELSE "ok"

MergeFrame ==
    /\ UNCHANGED <<tool, rag_instance, is_initialized, nOps, agents>>
    /\ UNCHANGED neoVars /\ UNCHANGED storeVars /\ UNCHANGED serverVars

\* the call enters the library: checks, then the first step is due
MergeStart(sources, target) ==
    /\ tool = "lightrag" /\ ensure_rag_ready = "ok"
    /\ merge_run.phase = "idle"
    /\ MergeRejected(sources, target) = "ok"
    /\ merge_run' = [phase |-> "running", sources |-> sources, target |-> target,
                     done |-> 0, attempt |-> 1,
                     goal |-> amerge_entities(kg_nodes, kg_edges, sources, target)]
    /\ UNCHANGED <<kg_nodes, kg_edges, last>>
    /\ MergeFrame

MergeStep ==
    /\ merge_run.phase = "running"
    /\ merge_run.done < Len(MergePlan(merge_run.sources, merge_run.target))
    /\ LET st == MergePlan(merge_run.sources, merge_run.target)[merge_run.done + 1]
       IN  /\ kg_nodes' =
                 IF st.step = "upsert_target"
                 THEN MergeUpsertTarget(kg_nodes, merge_run.sources, merge_run.target)
                 ELSE IF st.step = "delete" /\ st.node # merge_run.target
                 THEN remove_node(kg_nodes, st.node)
                 ELSE kg_nodes
           /\ kg_edges' =
                 IF st.step = "redirect"
                 THEN redirect_edges(kg_edges, st.node, merge_run.target)
                 ELSE kg_edges
    /\ merge_run' = [merge_run EXCEPT !.done = @ + 1]
    /\ UNCHANGED last
    /\ MergeFrame

MergeFinish ==
    /\ merge_run.phase = "running"
    /\ merge_run.done = Len(MergePlan(merge_run.sources, merge_run.target))
    /\ merge_run' = [merge_run EXCEPT !.phase = "done"]
    /\ last' = Result("merge_entities", "ok", FALSE, TRUE)
    /\ UNCHANGED <<kg_nodes, kg_edges>>
    /\ MergeFrame

\* the first call is cancelled, or the process dies, between two steps
MergeInterrupt ==
    /\ merge_run.phase = "running" /\ merge_run.attempt = 1
    /\ merge_run' = [merge_run EXCEPT !.phase = "interrupted"]
    /\ last' = Result("merge_entities", "Cancelled", TRUE, TRUE)
    /\ UNCHANGED <<kg_nodes, kg_edges>>
    /\ MergeFrame

\* merge_entities again, same arguments
MergeRetry ==
    /\ merge_run.phase = "interrupted"
    /\ LET r == MergeRejected(merge_run.sources, merge_run.target)
       IN  IF r = "ok"
           THEN /\ merge_run' = [merge_run EXCEPT !.phase = "running",
                                                  !.done = 0, !.attempt = 2]
                /\ UNCHANGED last
           ELSE /\ merge_run' = [merge_run EXCEPT !.phase = "failed", !.attempt = 2]
                /\ last' = Result("merge_entities", r, FALSE, TRUE)
    /\ UNCHANGED <<kg_nodes, kg_edges>>
    /\ MergeFrame

InitMerge ==
    /\ InitLightRAG /\ rag_instance = "inst"
    /\ merge_run = NoMerge
    /\ agents = NoAgents
    /\ NoStore /\ NoServer

NextMerge ==
    \/ initialize(TRUE) /\ UNCHANGED auxVars
    \/ \E ss \in SourceLists, t \in Ids : MergeStart(ss, t)
    \/ MergeStep
    \/ MergeFinish
    \/ MergeInterrupt
    \/ MergeRetry

SpecMerge == InitMerge /\ [][NextMerge]_vars

-----------------------------------------------------------------------------
(* The LightRAG agent's protocol (Light_agent.py, instructions): before a  *)
(* create, edit, merge or delete it calls get_entity_details on the        *)
(* entities involved, and acts on what that call returned.  Requests of    *)
(* one user share one tool object and run as concurrent tasks; nothing     *)
(* holds a lock between the two tool calls.                                *)

\* what get_entity_details returns for an entity: its data, or not found
EntityView(n) == IF has_node(kg_nodes, n) THEN <<kg_nodes[n]>> ELSE << >>

Tasks ==
    {[kind |-> "create", id |-> "A", with |-> << >>],
     [kind |-> "edit",   id |-> "A", with |-> << >>],
     [kind |-> "delete", id |-> "A", with |-> << >>],
     [kind |-> "merge",  id |-> "A", with |-> <<"B">>]}

\* the entities a task looks at before it acts
Checked(task) == {task.id} \cup SeqToSet(task.with)

\* what the instructions require the check to have shown
CheckPasses(task, seen) ==
    IF task.kind = "create" THEN seen[task.id] = << >>
    ELSE \A n \in Checked(task) : seen[n] # << >>

AgentFrame ==
    /\ UNCHANGED <<tool, rag_instance, is_initialized, merge_run>>
    /\ UNCHANGED neoVars /\ UNCHANGED storeVars /\ UNCHANGED serverVars

AgentCheck(a, task) ==
    /\ tool = "lightrag" /\ ensure_rag_ready = "ok"
    /\ agents[a].pc = "idle"
    /\ LET seen == [n \in Checked(task) |-> EntityView(n)]
       IN  agents' = [agents EXCEPT ![a] =
                         [pc |-> IF CheckPasses(task, seen) THEN "checked" ELSE "done",
                          task |-> task, seen |-> seen, acted |-> FALSE]]
    /\ last' = Result("get_entity_details", "ok", FALSE, TRUE)
    /\ UNCHANGED <<kg_nodes, kg_edges, nOps>>
    /\ AgentFrame

\* an edit writes a description of the agent's own
AgentAct(a) ==
    /\ agents[a].pc = "checked"
    /\ LET task == agents[a].task
       IN  \/ task.kind = "create" /\ create_entity(task.id, "d", None, TRUE)
           \/ task.kind = "edit" /\
                 edit_entity(task.id, [description |-> a, entity_name |-> None], FALSE, TRUE)
           \/ task.kind = "delete" /\ delete_entity(task.id, TRUE)
           \/ task.kind = "merge" /\ merge_entities(<<task.id>>, task.with[1], TRUE)
    /\ agents' = [agents EXCEPT ![a].pc = "done", ![a].acted = TRUE]
    /\ UNCHANGED merge_run /\ UNCHANGED storeVars /\ UNCHANGED serverVars

InitAgents ==
    /\ InitLightRAG /\ rag_instance = "inst"
    /\ merge_run = NoMerge
    /\ agents = NoAgents
    /\ NoStore /\ NoServer

NextAgents ==
    \/ initialize(TRUE) /\ UNCHANGED auxVars
    \/ \E a \in Agents, task \in Tasks : AgentCheck(a, task)
    \/ \E a \in Agents : AgentAct(a)

SpecAgents == InitAgents /\ [][NextAgents]_vars

-----------------------------------------------------------------------------
(* LightRAGTool: documents.  store_text hands a text to the library, which *)
(* stores it under an id, embeds it and extracts entities from it; the     *)
(* retrieve_* tools query; delete_document removes a document and what was *)
(* derived solely from it.                                                 *)

Texts == {"t1", "t2"}
TextIn == Texts \cup {""}              \* text_content / content argument
DocIds == {"D1"}                       \* ids a caller may supply
DocIdIn == DocIds \cup {None, ""}      \* document_id argument
Queries == {"q", ""}
Modes == {"naive", "local", "global", "hybrid", "mix"}
ModeIn == Modes \cup {"bogus"}         \* _retrieve takes any string as mode

\* "an ID will be generated based on the content hash"
content_hash(text) == IF text = "t1" THEN "doc-t1" ELSE "doc-t2"

\* the entities the extraction finds in a text
Mentions(text) == IF text = "t1" THEN {"A"} ELSE {"A", "B"}

\* the graph after the extraction from document `id`: every entity found
\* carries `id` in its provenance
extract(nodes, id, text) ==
    [n \in DOMAIN nodes \cup Mentions(text) |->
        IF n \notin Mentions(text) THEN nodes[n]
        ELSE IF n \in DOMAIN nodes
        THEN [nodes[n] EXCEPT !.source_id = @ \cup {id}]
        ELSE [description |-> << >>, entity_type |-> "UNKNOWN", source_id |-> {id}]]

\* The id ainsert files the text under ...
used_id(text_content, document_id) ==
    IF document_id \in {None, ""} THEN content_hash(text_content) ELSE document_id

\* ... and what the confirmation message names: "(ID: {document_id or
\* 'auto-generated'})"
store_text(text_content, document_id, up) ==
    /\ Guarded("store_text", text_content = "", up,
               LET id == IF document_id \in {None, ""}
                         THEN content_hash(text_content) ELSE document_id
               IN  IF id \in DOMAIN docs
                   THEN Returns("store_text", "ok")
                   ELSE /\ kg_nodes' = extract(kg_nodes, id, text_content)
                        /\ UNCHANGED kg_edges
                        /\ last' = Result("store_text", "ok", FALSE, TRUE))
    /\ docs' = LET id == IF document_id \in {None, ""}
                         THEN content_hash(text_content) ELSE document_id
               IN  IF last'.kind = "ok" /\ id \notin DOMAIN docs
                   THEN [d \in DOMAIN docs \cup {id} |->
                            IF d = id THEN text_content ELSE docs[d]]
                   ELSE docs
    /\ answer' = IF last'.kind = "ok"
                 THEN {Or(document_id, "auto-generated")} ELSE {}

\* what aquery answers from: the stored texts (naive), the entities of the
\* graph (local, global), or both (hybrid, mix)
Found(mode) ==
    LET texts == {docs[d] : d \in DOMAIN docs}
        names == DOMAIN kg_nodes
    IN  IF mode = "naive" THEN texts
        ELSE IF mode \in {"local", "global"} THEN names
        ELSE texts \cup names

\* aquery's response when it found nothing: the empty string
EmptyResponse(found) == found = {}

\* _retrieve with the library's empty response treated as a failure
retrieve_error_on_empty(query, mode, up) ==
    \E used \in (IF mode \in Modes THEN {mode} ELSE Modes \cup {"raise"}) :
       /\ Guarded("retrieve", query = "", up,
                  /\ last' = Result("retrieve",
                                    IF used = "raise" \/ EmptyResponse(Found(used))
                                    THEN "Unavailable" ELSE "ok",
                                    FALSE, TRUE)
                  /\ UNCHANGED <<kg_nodes, kg_edges>>)
       /\ answer' = IF last'.kind = "ok" THEN Found(used) ELSE {}
       /\ UNCHANGED docs

\* _retrieve: an empty response of the library becomes the "No results"
\* message.  A mode outside the five is handed to the library like any
\* other: the library raises (the generic handler returns the error
\* string) or answers in a mode of its own choice.
retrieve(query, mode, up) ==
    \E used \in (IF mode \in Modes THEN {mode} ELSE Modes \cup {"raise"}) :
       /\ Guarded("retrieve", query = "", up,
                  /\ last' = Result("retrieve",
                                    IF used = "raise" THEN "Unavailable"
                                    ELSE IF EmptyResponse(Found(used)) THEN "NoResults"
                                    ELSE "ok",
                                    FALSE, TRUE)
                  /\ UNCHANGED <<kg_nodes, kg_edges>>)
       /\ answer' = IF last'.kind = "ok" THEN Found(used) ELSE {}
       /\ UNCHANGED docs

\* an entity that stays loses its provenance link to the deleted document
strip_provenance(node, id) == [node EXCEPT !.source_id = @ \ {id}]

\* adelete_by_doc_id removing every entity that mentions the document
without_document_cascade(nodes, id) ==
    [n \in {m \in DOMAIN nodes : id \notin nodes[m].source_id} |-> nodes[n]]

\* adelete_by_doc_id: the document, the entities derived solely from it and
\* their relations; on the other entities only the provenance link
without_document(nodes, id) ==
    [n \in {m \in DOMAIN nodes : nodes[m].source_id # {id}} |->
        strip_provenance(nodes[n], id)]

delete_document(document_id, up) ==
    /\ Guarded("delete_document", document_id = "", up,
               /\ kg_nodes' = without_document(kg_nodes, document_id)
               /\ kg_edges' = {e \in kg_edges : e.src \in DOMAIN kg_nodes'
                                                /\ e.tgt \in DOMAIN kg_nodes'}
               /\ last' = Result("delete_document", "ok", FALSE, TRUE))
    /\ docs' = IF last'.kind = "ok"
               THEN [d \in DOMAIN docs \ {document_id} |-> docs[d]]
               ELSE docs
    /\ UNCHANGED answer

-----------------------------------------------------------------------------
(* PineconeTools *)

PcIds == {"P1"}                        \* ids a caller may supply
PcIdIn == PcIds \cup {None, ""}        \* thought_id argument

Providers == {"ok", "missing", "raises"}   \* the openai package and its API

\* _get_embedding_from_openai: ImportError and every other exception are
\* caught, and a seeded random vector is returned in their place
get_embedding_from_openai(provider) ==
    IF provider = "ok" THEN "embedding" ELSE "random"

PcOp(op) ==
    /\ tool = "pinecone"
    /\ nOps < MaxOps
    /\ nOps' = nOps + 1
    /\ UNCHANGED <<tool, index, lifecycle, docs, merge_run, agents, registry, requests>>
    /\ UNCHANGED lrVars
    /\ UNCHANGED neoVars

\* try: _ensure_index_connected() ... except Exception: return "Error: ...".
\* _ensure_connected retries the client when there is none; `connects`
\* says whether Pinecone(api_key=...) succeeds then.
PcGuarded(op, connects, up, body) ==
    /\ PcOp(op)
    /\ pc' = IF pc = "none" /\ connects THEN "client" ELSE pc
    /\ IF pc' = "none" \/ index = "none"
       THEN /\ last' = Result(op, "NotReady", FALSE, FALSE)
            /\ UNCHANGED <<vectors, answer>>
       ELSE IF ~up
       THEN /\ last' = Result(op, "Unavailable", FALSE, TRUE)
            /\ UNCHANGED <<vectors, answer>>
       ELSE body

\* str(uuid.uuid4()): a value no vector carries yet
pc_uuid4 == CHOOSE u \in Uuids : \A ns \in Namespaces : u \notin DOMAIN vectors[ns]

\* index.upsert / index.delete on one namespace
ns_upsert(vs, ns, id, rec) ==
    [vs EXCEPT ![ns] = [v \in DOMAIN vs[ns] \cup {id} |->
                           IF v = id THEN rec ELSE vs[ns][v]]]

ns_delete(vs, ns, id) ==
    [vs EXCEPT ![ns] = [v \in DOMAIN vs[ns] \ {id} |-> vs[ns][v]]]

upsert_thought(content, thought_id, provider, connects, up) ==
    PcGuarded("upsert_thought", connects, up,
              LET id == IF thought_id \in {None, ""} THEN pc_uuid4 ELSE thought_id
              IN  /\ vectors' = ns_upsert(vectors, name_space, id,
                                   [text |-> content,
                                    values |-> get_embedding_from_openai(provider)])
                  /\ answer' = {id}
                  /\ last' = Result("upsert_thought", "ok", FALSE, TRUE))

\* index.query returns the top_k nearest vectors of the namespace whatever
\* the query vector is; top_k (5) exceeds what the model stores
query_similar_thoughts(query, namespace, provider, connects, up) ==
    PcGuarded("query_similar_thoughts", connects, up,
              /\ answer' = {vectors[Ns(namespace)][v].text :
                               v \in DOMAIN vectors[Ns(namespace)]}
              /\ last' = Result("query_similar_thoughts", "ok", FALSE, TRUE)
              /\ UNCHANGED vectors)

fetch_thought(thought_id, namespace, connects, up) ==
    PcGuarded("fetch_thought", connects, up,
              LET held == vectors[Ns(namespace)] IN
              /\ answer' = IF thought_id \in DOMAIN held
                           THEN {held[thought_id].text} ELSE {}
              /\ last' = Result("fetch_thought",
                                IF thought_id \in DOMAIN held THEN "ok" ELSE "NotFound",
                                FALSE, TRUE)
              /\ UNCHANGED vectors)

\* delete_thought refusing an id the index does not hold
delete_thought_must_exist(thought_id, namespace, connects, up) ==
    PcGuarded("delete_thought", connects, up,
              /\ vectors' = ns_delete(vectors, Ns(namespace), thought_id)
              /\ last' = Result("delete_thought",
                                IF thought_id \in DOMAIN vectors[Ns(namespace)]
                                THEN "ok" ELSE "NotFound",
                                FALSE, TRUE)
              /\ UNCHANGED answer)

delete_thought(thought_id, namespace, connects, up) ==
    PcGuarded("delete_thought", connects, up,
              /\ vectors' = ns_delete(vectors, Ns(namespace), thought_id)
              /\ last' = Result("delete_thought", "ok", FALSE, TRUE)
              /\ UNCHANGED answer)

-----------------------------------------------------------------------------
(* Documents and vectors: LightRAGTool's document tools with the deletes   *)
(* of the graph, and PineconeTools.                                        *)

StoreSeedDocs == [d \in {"doc-t1", "doc-t2"} |-> IF d = "doc-t1" THEN "t1" ELSE "t2"]

\* C entered by hand; A and B extracted from the two documents
StoreSeedNodes ==
    extract(extract([n \in {"C"} |-> SeedNodes[n]], "doc-t1", "t1"), "doc-t2", "t2")

StoreSeedEdges == {[src |-> "A", tgt |-> "B", weight |-> 5],
                   [src |-> "B", tgt |-> "C", weight |-> 10]}

\* u1 was stored without an id, P1 under the caller's id, both by
\* upsert_thought
SeedVectors ==
    [NoVectors EXCEPT ![name_space] =
        [v \in {"u1", "P1"} |->
            [text |-> IF v = "u1" THEN "t1" ELSE "t2", values |-> "embedding"]]]

DocFrame == UNCHANGED <<merge_run, agents, lifecycle, pc, index, vectors, registry, requests>>

InitStore ==
    /\ tool \in {"lightrag", "pinecone"}
    /\ is_initialized = FALSE
    /\ driver = "none" /\ neo_initialized = FALSE /\ constraint = FALSE
    /\ thoughts = {} /\ rels = {} /\ clock = 0
    /\ last = Result("construct", "ok", FALSE, FALSE)
    /\ nOps = 0
    /\ merge_run = NoMerge /\ agents = NoAgents /\ lifecycle = "untracked" /\ NoServer
    /\ answer = {}
    /\ IF tool = "lightrag"
       THEN /\ rag_instance = "inst"
            /\ \/ kg_nodes = << >> /\ kg_edges = {} /\ docs = << >>
               \/ kg_nodes = StoreSeedNodes /\ kg_edges = StoreSeedEdges
                  /\ docs = StoreSeedDocs
            /\ pc = "none" /\ index = "none" /\ vectors = NoVectors
       ELSE /\ rag_instance = "unset"
            /\ kg_nodes = << >> /\ kg_edges = {} /\ docs = << >>
            /\ \E c \in {<<"none", "none">>, <<"client", "none">>, <<"client", "index">>} :
                  pc = c[1] /\ index = c[2]
            /\ vectors \in {NoVectors, SeedVectors}

NextStore ==
    \/ \E up \in BOOLEAN : initialize(up) /\ UNCHANGED auxVars
    \/ \E up \in BOOLEAN : finalize(up) /\ UNCHANGED auxVars
    \/ \E t \in TextIn, d \in DocIdIn, up \in BOOLEAN : store_text(t, d, up) /\ DocFrame
    \/ \E q \in Queries, m \in ModeIn, up \in BOOLEAN : retrieve(q, m, up) /\ DocFrame
    \/ \E d \in {"doc-t1", "doc-t2", "D1", ""}, up \in BOOLEAN :
          delete_document(d, up) /\ DocFrame
    \/ \E n \in Names, up \in BOOLEAN : delete_entity(n, up) /\ UNCHANGED auxVars
    \/ \E a \in Names, b \in Ids, up \in BOOLEAN :
          delete_relation(a, b, up) /\ UNCHANGED auxVars
    \/ \E c \in TextIn, i \in PcIdIn, p \in Providers, k \in BOOLEAN, up \in BOOLEAN :
          upsert_thought(c, i, p, k, up)
    \/ \E q \in Queries, ns \in NamespaceIn, p \in Providers, k \in BOOLEAN,
          up \in BOOLEAN : query_similar_thoughts(q, ns, p, k, up)
    \/ \E i \in PcIds \cup {"u1", ""}, ns \in NamespaceIn, k \in BOOLEAN, up \in BOOLEAN :
          fetch_thought(i, ns, k, up)
    \/ \E i \in PcIds \cup {"u1", ""}, ns \in NamespaceIn, k \in BOOLEAN, up \in BOOLEAN :
          delete_thought(i, ns, k, up)

SpecStore == InitStore /\ [][NextStore]_vars

-----------------------------------------------------------------------------
(* The connection's history.  `lifecycle` follows the calls that open and  *)
(* close a tool: "Connected" from a successful initialize /                *)
(* initialize_connection, "Closed" from a finalize that ran, and Closed    *)
(* for good.  Neo4jThoughtTools has no operation that closes.              *)

Opened(kind) ==
    IF lifecycle = "Closed" THEN "Closed"
    ELSE IF kind = "ok" THEN "Connected" ELSE lifecycle

LcFrame == UNCHANGED <<merge_run, agents, docs, answer, pc, index, vectors, registry, requests>>

LcInitialize(up) ==
    /\ initialize(up)
    /\ lifecycle' = Opened(last'.kind)
    /\ LcFrame

LcFinalize(up) ==
    /\ finalize(up)
    /\ lifecycle' = IF last'.kind \in {"ok", "Unavailable"} THEN "Closed" ELSE lifecycle
    /\ LcFrame

LcInitializeConnection(outcome) ==
    /\ initialize_connection(outcome)
    /\ lifecycle' = Opened(last'.kind)
    /\ LcFrame

InitLifecycle ==
    /\ InitLightRAG \/ InitNeo4j
    /\ lifecycle = IF neo_initialized THEN "Connected" ELSE "Uninitialized"
    /\ merge_run = NoMerge /\ agents = NoAgents /\ NoServer
    /\ docs = << >> /\ answer = {}
    /\ pc = "none" /\ index = "none" /\ vectors = NoVectors

NextLifecycle ==
    \/ \E up \in BOOLEAN : LcInitialize(up)
    \/ \E up \in BOOLEAN : LcFinalize(up)
    \/ \E outcome \in {"ok", "no_driver", "no_connection"} : LcInitializeConnection(outcome)
    \/ \E n \in Names, d \in DescIn, t \in TypeIn, up \in BOOLEAN :
          create_entity(n, d, t, up) /\ UNCHANGED auxVars
    \/ \E n \in Names, up \in BOOLEAN : get_entity_details(n, up) /\ UNCHANGED auxVars
    \/ \E c \in Contents, i \in ThoughtIdIn, up \in BOOLEAN :
          add_thought(c, i, up) /\ UNCHANGED auxVars
    \/ \E i \in ThoughtIds, up \in BOOLEAN : get_thought(i, up) /\ UNCHANGED auxVars

SpecLifecycle == InitLifecycle /\ [][NextLifecycle]_vars

-----------------------------------------------------------------------------
(* Entities written and read back: get_entity_details with the record it   *)
(* returns (the graph_data of the library's get_entity_info).              *)

EntityFrame == UNCHANGED <<merge_run, agents, lifecycle, docs, pc, index, vectors, registry, requests>>

EntityDetails(entity_name, up) ==
    /\ get_entity_details(entity_name, up)
    /\ answer' = IF last'.kind = "ok" THEN {kg_nodes[entity_name]} ELSE {}
    /\ EntityFrame

InitEntities ==
    /\ InitLightRAG
    /\ rag_instance = "inst"
    /\ merge_run = NoMerge /\ agents = NoAgents /\ NoStore /\ NoServer

NextEntities ==
    \/ \E up \in BOOLEAN : initialize(up) /\ UNCHANGED auxVars
    \/ \E n \in Names, d \in DescIn, t \in TypeIn, up \in BOOLEAN :
          create_entity(n, d, t, up) /\ UNCHANGED auxVars
    \/ \E n \in Names, u \in EntityUpdates, r \in BOOLEAN, up \in BOOLEAN :
          edit_entity(n, u, r, up) /\ UNCHANGED auxVars
    \/ \E n \in Names, up \in BOOLEAN : delete_entity(n, up) /\ UNCHANGED auxVars
    \/ \E n \in Names, up \in BOOLEAN : EntityDetails(n, up)

SpecEntities == InitEntities /\ [][NextEntities]_vars

-----------------------------------------------------------------------------
(* Neo4jThoughtTools.search_thoughts.  `answer` holds the rows of the      *)
(* result, in the order the database returned them.                        *)

SearchQueries == {"c", "c1", ""}
Limits == {1, 2}

\* t.content CONTAINS $query_text, on the contents of the model
Contains(content, query_text) ==
    \/ query_text = ""
    \/ query_text = content
    \/ query_text = "c" /\ content \in {"c1", "c2"}

Matching(query_text) == {t \in thoughts : Contains(t.content, query_text)}

\* MATCH ... RETURN t LIMIT $limit, with no ORDER BY: the database returns
\* any `limit` of the matching nodes (all of them when there are fewer), in
\* any order
Rows(matches, limit) ==
    LET k == IF Cardinality(matches) < limit THEN Cardinality(matches) ELSE limit
    IN  {r \in [1..k -> matches] : \A i \in 1..k, j \in 1..k : i # j => r[i] # r[j]}

search_thoughts(query_text, limit, up) ==
    /\ NeoOp("search_thoughts")
    /\ IF ~ensure_initialized
       THEN NeoReturns("search_thoughts", "NotReady", FALSE) /\ answer' = {}
       ELSE IF ~up
       THEN NeoReturns("search_thoughts", "Unavailable", TRUE) /\ answer' = {}
       ELSE /\ NeoReturns("search_thoughts", "ok", TRUE)
            /\ \E r \in Rows(Matching(query_text), limit) : answer' = {r}
    /\ UNCHANGED <<merge_run, agents, lifecycle, docs, pc, index, vectors, registry, requests>>

InitSearch ==
    /\ InitNeo4j
    /\ merge_run = NoMerge /\ agents = NoAgents /\ NoStore /\ NoServer

NextSearch ==
    \/ \E o \in {"ok", "no_driver", "no_connection"} : initialize_connection(o)
          /\ UNCHANGED auxVars
    \/ \E c \in Contents, i \in ThoughtIdIn, up \in BOOLEAN : add_thought(c, i, up)
          /\ UNCHANGED auxVars
    \/ \E q \in SearchQueries, l \in Limits, up \in BOOLEAN : search_thoughts(q, l, up)

SpecSearch == InitSearch /\ [][NextSearch]_vars

-----------------------------------------------------------------------------
(* main.py: the /initialize/ and /agent/invoke/ endpoints over the         *)
(* registry initialized_lightrag_tools.  A request runs without            *)
(* interruption up to its first await that suspends (initialize_storages   *)
(* inside LightRAGTool.initialize) and from there to its end; requests     *)
(* interleave at that point.  A request's tool is "none" (not built),      *)
(* "unset" or "NotCreated" (built without a LightRAG instance),            *)
(* "Initializing", "Connected" or "Failed" (initialize returned an error). *)

ServerFrame ==
    /\ UNCHANGED <<tool, nOps, merge_run, agents>>
    /\ UNCHANGED lrVars /\ UNCHANGED neoVars /\ UNCHANGED storeVars

\* /initialize/ up to the first suspension.  `built` is what the
\* constructor of LightRAGTool left in rag_instance.
InitializeReceive(r, u, built) ==
    /\ requests[r].pc = "idle"
    /\ IF registry[u] # "none"
       THEN /\ requests' = [requests EXCEPT ![r] =
                               [user |-> u, pc |-> "already", tool |-> "none"]]
            /\ UNCHANGED registry
       ELSE IF built = "unset"
       THEN \* initialize raises AttributeError: except Exception, status 500
            /\ requests' = [requests EXCEPT ![r] =
                               [user |-> u, pc |-> "failed", tool |-> "unset"]]
            /\ UNCHANGED registry
       ELSE IF built = "none"
       THEN \* initialize returns its error message at once; it is not looked at
            /\ requests' = [requests EXCEPT ![r] =
                               [user |-> u, pc |-> "done", tool |-> "NotCreated"]]
            /\ registry' = [registry EXCEPT ![u] = r]
       ELSE /\ requests' = [requests EXCEPT ![r] =
                               [user |-> u, pc |-> "initializing",
                                tool |-> "Initializing"]]
            /\ UNCHANGED registry
    /\ UNCHANGED last
    /\ ServerFrame

\* initialize_storages has returned or raised; initialize returns a message
\* either way, and the endpoint registers the tool
InitializeResume(r, up) ==
    /\ requests[r].pc = "initializing"
    /\ requests' = [requests EXCEPT ![r].pc = "done",
                                    ![r].tool = IF up THEN "Connected" ELSE "Failed"]
    /\ registry' = [registry EXCEPT ![requests[r].user] = r]
    /\ UNCHANGED last
    /\ ServerFrame

\* /agent/invoke/: status 400 without a registered tool, else the agent runs
\* with the registered tool, whose data operations raise unless it is ready
invoke_agent(u) ==
    /\ last' = IF registry[u] = "none"
               THEN Result("invoke_agent", "NotRegistered", TRUE, FALSE)
               ELSE IF requests[registry[u]].tool = "Connected"
               THEN Result("invoke_agent", "ok", FALSE, TRUE)
               ELSE Result("invoke_agent", "NotReady", TRUE, FALSE)
    /\ UNCHANGED serverVars
    /\ ServerFrame

InitRegistry ==
    /\ tool = "lightrag" /\ rag_instance = "unset" /\ is_initialized = FALSE
    /\ kg_nodes = << >> /\ kg_edges = {}
    /\ driver = "none" /\ neo_initialized = FALSE /\ constraint = FALSE
    /\ thoughts = {} /\ rels = {} /\ clock = 0
    /\ last = Result("construct", "ok", FALSE, FALSE)
    /\ nOps = 0
    /\ merge_run = NoMerge /\ agents = NoAgents /\ NoStore /\ NoServer

NextRegistry ==
    \/ \E r \in Requests, u \in Users, built \in {"unset", "none", "inst"} :
          InitializeReceive(r, u, built)
    \/ \E r \in Requests, up \in BOOLEAN : InitializeResume(r, up)
    \/ \E u \in Users : invoke_agent(u)

SpecRegistry == InitRegistry /\ [][NextRegistry]_vars

-----------------------------------------------------------------------------
(* Properties *)

LightRAGDataOps ==
    {"create_entity", "edit_entity", "delete_entity", "create_relation",
     "edit_relation", "delete_relation", "merge_entities",
     "get_entity_details", "get_relation_details"}

Neo4jDataOps == {"add_thought", "connect_thoughts", "get_thought"}

LightRAGReady == rag_instance = "inst" /\ is_initialized

kg == <<kg_nodes, kg_edges>>

\* C1: a data operation invoked on a tool that is not initialized (never
\* initialized, or finalized) ends in the NotReady condition and makes no
\* call to the backing store.
C1_NotReadyWithoutStoreAccess ==
    /\ (tool = "lightrag" /\ last.op \in LightRAGDataOps /\ ~is_initialized)
          => (last.kind = "NotReady" /\ ~last.touched)
    /\ (tool = "neo4j" /\ last.op \in Neo4jDataOps /\ ~neo_initialized)
          => (last.kind = "NotReady" /\ ~last.touched)

UniqueThoughtIds == \A t1 \in thoughts, t2 \in thoughts : t1.id = t2.id => t1 = t2

\* C2: create_entity / add_thought on an id that exists already is answered
\* AlreadyExists, adds no node and leaves the existing node as it was; no two
\* nodes ever share an id.
C2_CreateOnExistingId ==
    [][ /\ last'.op = "create_entity" => \A n \in Ids, d \in DescIn, t \in TypeIn :
              (create_entity(n, d, t, TRUE) /\ LightRAGReady /\ n \in DOMAIN kg_nodes)
                  => (last'.kind = "AlreadyExists" /\ UNCHANGED kg)
        /\ last'.op = "add_thought" => \A c \in Contents, i \in ThoughtIdIn \ {""} :
              (add_thought(c, i, TRUE) /\ neo_initialized /\ \E t \in thoughts : t.id = i)
                  => (last'.kind = "AlreadyExists" /\ UNCHANGED <<thoughts, rels>>)
        /\ UniqueThoughtIds'
      ]_vars

C2_Witness ==
    /\ last.op = "create_entity" /\ last.kind = "AlreadyExists"
    /\ kg_nodes = SeedNodes

C2_WitnessNeo4j ==
    /\ last.op = "add_thought" /\ last.kind = "AlreadyExists"
    /\ thoughts = SeedThoughts

\* C3: create_relation / connect_thoughts with a missing endpoint is answered
\* NotFound and writes neither an edge nor a node; with both endpoints
\* present (and no such edge yet) the same call succeeds and the edge exists.
C3_EdgeRequiresEndpoints ==
    [][ /\ last'.op = "create_relation" => \A s \in Ids, t \in Ids, w \in Weights :
              (create_relation(s, t, w, TRUE) /\ LightRAGReady)
                  => IF s \notin DOMAIN kg_nodes \/ t \notin DOMAIN kg_nodes
                     THEN last'.kind = "NotFound" /\ UNCHANGED kg
                     ELSE (~\E e \in kg_edges : e.src = s /\ e.tgt = t)
                             => /\ last'.kind = "ok"
                                /\ kg_nodes' = kg_nodes
                                /\ \E e \in kg_edges' : e.src = s /\ e.tgt = t
        /\ last'.op = "connect_thoughts" =>
            \A s \in ThoughtIds, t \in ThoughtIds, ty \in RelTypes, w \in Weights, pr \in PropsIn :
              (connect_thoughts(s, t, ty, w, pr, TRUE) /\ neo_initialized)
                  => IF ~(\E x \in thoughts : x.id = s) \/ ~(\E y \in thoughts : y.id = t)
                     THEN last'.kind = "NotFound" /\ UNCHANGED <<thoughts, rels>>
                     ELSE /\ last'.kind = "ok"
                          /\ thoughts' = thoughts
                          /\ \E r \in rels', x \in thoughts, y \in thoughts :
                                /\ x.id = s /\ y.id = t
                                /\ r.src = x.nid /\ r.tgt = y.nid /\ r.type = ty
      ]_vars

C3_Witness ==
    /\ last.op = "create_relation" /\ last.kind = "ok"
    /\ \E e \in kg_edges : e \notin SeedEdges

C3_WitnessNotFound ==
    /\ last.op = "connect_thoughts" /\ last.kind = "NotFound"
    /\ thoughts # {} /\ rels = {}

NoOrphanEdges ==
    /\ \A e \in kg_edges : e.src \in DOMAIN kg_nodes /\ e.tgt \in DOMAIN kg_nodes
    /\ \A r \in rels : /\ \E x \in thoughts : x.nid = r.src
                       /\ \E y \in thoughts : y.nid = r.tgt

\* C4: delete_entity(A) removes A and every relation into or out of A and
\* leaves every other entity as it was; afterwards the details calls on A
\* and on a relation of A answer NotFound; no state holds an edge with an
\* absent endpoint.
C4_CascadeDelete ==
    [][ /\ last'.op = "delete_entity" => \A n \in Ids :
              (delete_entity(n, TRUE) /\ LightRAGReady)
                  => /\ n \notin DOMAIN kg_nodes'
                     /\ ~\E e \in kg_edges' : e.src = n \/ e.tgt = n
                     /\ \A m \in DOMAIN kg_nodes \ {n} :
                           m \in DOMAIN kg_nodes' /\ kg_nodes'[m] = kg_nodes[m]
                     /\ \A e \in kg_edges : (e.src # n /\ e.tgt # n) => e \in kg_edges'
        /\ last'.op = "get_entity_details" => \A n \in Ids :
              (get_entity_details(n, TRUE) /\ LightRAGReady)
                  => (last'.kind = "NotFound" <=> n \notin DOMAIN kg_nodes)
        /\ last'.op = "get_relation_details" => \A n \in Ids, m \in Ids :
              (get_relation_details(n, m, TRUE) /\ LightRAGReady /\ n \notin DOMAIN kg_nodes)
                  => last'.kind = "NotFound"
        /\ NoOrphanEdges'
      ]_vars

C4_Witness ==
    /\ last.op = "delete_entity" /\ last.kind = "ok"
    /\ DOMAIN kg_nodes = {"B", "C"}
    /\ kg_edges = {[src |-> "B", tgt |-> "C", weight |-> 10]}

\* C5: at most one edge exists per (source, target, relationship type),
\* whatever weights and properties the calls that made it carried.
C5_OneEdgePerTriple ==
    /\ \A e \in kg_edges, f \in kg_edges :
          (e.src = f.src /\ e.tgt = f.tgt) => e = f
    /\ \A r \in rels, q \in rels :
          (r.src = q.src /\ r.tgt = q.tgt /\ r.type = q.type) => r = q

\* C6: every stored relation has a weight between 0.0 and 1.0.
C6_WeightInRange ==
    /\ \A e \in kg_edges : 0 <= e.weight /\ e.weight <= 10
    /\ \A r \in rels : 0 <= r.weight /\ r.weight <= 10

\* where a merge of `sources` into `target` sends an entity name
MergedName(n, sources, target) == IF n \in SeqToSet(sources) THEN target ELSE n

MaxWeight(S) == CHOOSE w \in S : \A v \in S : v <= w

C8_Witness ==
    /\ last.op = "merge_entities" /\ last.kind = "NotFound"
    /\ DOMAIN kg_nodes = {"A", "C"}
    /\ kg_edges = {[src |-> "A", tgt |-> "C", weight |-> 5]}

C9_RetryRecoversMerge ==
    (merge_run.phase # "idle" /\ merge_run.attempt = 2)
        => /\ merge_run.phase # "failed"
           /\ merge_run.phase = "done"
                 => (kg_nodes = merge_run.goal.nodes /\ kg_edges = merge_run.goal.edges)

\* C10: when an agent's mutation is applied, the entities it acts on are
\* still as its own check saw them: no other operation came between the
\* check and the act.
C10_ActOnFreshCheck ==
    [][ \A a \in Agents :
          (agents[a].pc = "checked" /\ agents'[a].pc = "done" /\ last'.kind = "ok")
              => \A n \in Checked(agents[a].task) : agents[a].seen[n] = EntityView(n)
      ]_vars
\* the records of text `c` that were stored without an id of the caller's
DerivedDocs(ds, c) == {d \in DOMAIN ds \ DocIds : ds[d] = c}
DerivedVectors(vs, c) ==
    {v \in DOMAIN vs[name_space] \ PcIds : vs[name_space][v].text = c}

\* C11: storing a content that was stored before, again without an id,
\* derives the id of the first store and leaves exactly one record of that
\* content (store_text and upsert_thought).
C11_IdempotentStore ==
    [][ /\ (last'.op = "store_text" /\ last'.kind = "ok") => \A t \in Texts :
              (store_text(t, None, TRUE) /\ DerivedDocs(docs, t) # {})
                  => /\ DOMAIN docs' = DOMAIN docs
                     /\ Cardinality(DerivedDocs(docs', t)) = 1
        /\ (last'.op = "upsert_thought" /\ last'.kind = "ok") =>
              \A c \in Texts, p \in Providers, k \in BOOLEAN :
                 (upsert_thought(c, None, p, k, TRUE) /\ DerivedVectors(vectors, c) # {})
                     => /\ answer' \subseteq DerivedVectors(vectors, c)
                        /\ Cardinality(DerivedVectors(vectors', c)) = 1
      ]_vars
\* the tool accepts data operations
Connected ==
    \/ tool = "lightrag" /\ rag_instance = "inst" /\ is_initialized
    \/ tool = "neo4j" /\ neo_initialized

\* C12: a tool is Connected only from a successful initialize, a finalize
\* leaves it not Connected whether it succeeded or failed, and a tool that
\* was closed is never Connected again.
C12_LifecycleOneWay ==
    /\ Connected => lifecycle = "Connected"
    /\ (last.op = "finalize" /\ last.kind \in {"ok", "Unavailable"}) => ~Connected
\* C13: initialize / initialize_connection on a Connected tool does nothing:
\* no call reaches the store, the connection and the stored data stay as
\* they are, and the tool stays Connected.
C13_InitializeIdempotent ==
    [][ /\ (last'.op = "initialize" /\ tool = "lightrag" /\ Connected)
              => (~last'.touched /\ Connected' /\ UNCHANGED lrVars)
        /\ (last'.op = "initialize_connection" /\ tool = "neo4j" /\ Connected)
              => (~last'.touched /\ Connected' /\ UNCHANGED neoVars)
      ]_vars
\* C14: an unreachable store (Unavailable) and an uninitialized tool
\* (NotReady) reach the caller as raised failures, never as a returned value
\* like a NotFound, AlreadyExists or InvalidArgument result.
C14_FailuresPropagate ==
    last.kind \in {"Unavailable", "NotReady"} => last.raised

EmptyStore == docs = << >> /\ kg_nodes = << >> /\ kg_edges = {}

C17_EmptyStringRejected ==
    [][ /\ (last'.op = "create_entity") => \A d \in DescIn, t \in TypeIn :
              (create_entity("", d, t, TRUE) /\ tool = "lightrag" /\ Connected)
                  => (last'.kind = "InvalidArgument" /\ ~last'.touched /\ UNCHANGED kg)
        /\ (last'.op = "create_relation") => \A n \in Ids, w \in Weights :
              (  (create_relation("", n, w, TRUE) \/ create_relation(n, "", w, TRUE))
               /\ tool = "lightrag" /\ Connected)
                  => (last'.kind = "InvalidArgument" /\ ~last'.touched /\ UNCHANGED kg)
        /\ (last'.op = "add_thought") => \A i \in ThoughtIdIn :
              (add_thought("", i, TRUE) /\ tool = "neo4j" /\ Connected)
                  => (  last'.kind = "InvalidArgument" /\ ~last'.touched
                     /\ UNCHANGED <<thoughts, rels>>)
      ]_vars
\* C18: the result of a delete tells whether the target existed: deleting an
\* entity, relation or document that is not there is not reported like a
\* delete that was applied.
C18_DeleteReportsAbsence ==
    [][ /\ (last'.op = "delete_entity") => \A n \in Ids :
              (delete_entity(n, TRUE) /\ LightRAGReady /\ ~has_node(kg_nodes, n))
                  => last'.kind # "ok"
        /\ (last'.op = "delete_relation") => \A a \in Ids, b \in Ids :
              (delete_relation(a, b, TRUE) /\ LightRAGReady /\ ~has_edge(kg_edges, a, b))
                  => last'.kind # "ok"
        /\ (last'.op = "delete_document") => \A d \in {"doc-t1", "doc-t2", "D1"} :
              (delete_document(d, TRUE) /\ LightRAGReady /\ d \notin DOMAIN docs)
                  => last'.kind # "ok"
      ]_vars

PcReady == tool = "pinecone" /\ index = "index"

SourcedFrom(nodes, d) == {n \in DOMAIN nodes : d \in nodes[n].source_id}

\* C19: deletes are idempotent.  A delete of an absent target returns a
\* result that is not an error and changes nothing; a delete that ran leaves
\* its target absent, so the same delete applied again changes nothing more.
C19_DeletesIdempotent ==
    [][ /\ (last'.op = "delete_entity") => \A n \in Ids :
              (delete_entity(n, TRUE) /\ LightRAGReady)
                  => /\ ~has_node(kg_nodes', n) /\ incident_edges(kg_edges', n) = {}
                     /\ ~has_node(kg_nodes, n) /\ incident_edges(kg_edges, n) = {}
                           => (last'.kind = "ok" /\ ~last'.raised /\ UNCHANGED kg)
        /\ (last'.op = "delete_relation") => \A a \in Ids, b \in Ids :
              (delete_relation(a, b, TRUE) /\ LightRAGReady)
                  => /\ ~has_edge(kg_edges', a, b)
                     /\ ~has_edge(kg_edges, a, b)
                           => (last'.kind = "ok" /\ ~last'.raised /\ UNCHANGED kg)
        /\ (last'.op = "delete_document") => \A d \in {"doc-t1", "doc-t2", "D1"} :
              (delete_document(d, TRUE) /\ LightRAGReady)
                  => /\ d \notin DOMAIN docs' /\ SourcedFrom(kg_nodes', d) = {}
                     /\ (d \notin DOMAIN docs /\ SourcedFrom(kg_nodes, d) = {})
                           => (  last'.kind = "ok" /\ ~last'.raised
                              /\ UNCHANGED <<kg_nodes, kg_edges, docs>>)
        /\ (last'.op = "delete_thought") => \A i \in PcIds \cup {"u1"}, ns \in NamespaceIn, k \in BOOLEAN :
              (delete_thought(i, ns, k, TRUE) /\ PcReady)
                  => /\ i \notin DOMAIN vectors'[Ns(ns)]
                     /\ i \notin DOMAIN vectors[Ns(ns)]
                           => (last'.kind = "ok" /\ ~last'.raised /\ UNCHANGED vectors)
      ]_vars

C19_Witness ==
    /\ PcReady /\ nOps = 1 /\ vectors = NoVectors
    /\ last.op = "delete_thought" /\ last.kind = "ok"
StoredElsewhere(d) == \E e \in DOMAIN docs \ {d} : docs[e] = docs[d]

C21_StoreTextReturnsId ==
    [][ (last'.op = "store_text" /\ last'.kind = "ok") =>
            \A t \in Texts, d \in DocIdIn :
               (store_text(t, d, TRUE) /\ LightRAGReady)
                   => /\ answer' = {used_id(t, d)}
                      /\ answer' \subseteq DOMAIN docs' ]_vars
\* C22: when the embedding provider is missing or raises, upsert_thought and
\* query_similar_thoughts fail with a configuration error and neither write
\* to nor read from the vector index.
C22_NoProviderFailsFast ==
    [][ /\ (last'.op = "upsert_thought") =>
              \A c \in Texts, i \in PcIdIn, p \in Providers \ {"ok"}, k \in BOOLEAN :
                 (upsert_thought(c, i, p, k, TRUE) /\ PcReady)
                     => (  last'.kind = "ConfigError" /\ ~last'.touched
                        /\ UNCHANGED vectors)
        /\ (last'.op = "query_similar_thoughts") =>
              \A ns \in NamespaceIn, p \in Providers \ {"ok"}, k \in BOOLEAN :
                 (query_similar_thoughts("q", ns, p, k, TRUE) /\ PcReady)
                     => (last'.kind = "ConfigError" /\ ~last'.touched)
      ]_vars
\* C30: a thought written by upsert_thought under id i is visible to
\* fetch_thought(i), query_similar_thoughts and delete_thought(i) called with
\* their default namespace: fetch returns the stored content, the query can
\* return it, and delete removes it.
C30_DefaultNamespaceAgrees ==
    [][ /\ (last'.op = "fetch_thought") => \A i \in PcIds \cup {"u1"}, k \in BOOLEAN :
              (  fetch_thought(i, None, k, TRUE) /\ PcReady
               /\ i \in DOMAIN vectors[name_space])
                  => (last'.kind = "ok" /\ answer' = {vectors[name_space][i].text})
        /\ (last'.op = "query_similar_thoughts") => \A k \in BOOLEAN, p \in Providers :
              (query_similar_thoughts("q", None, p, k, TRUE) /\ PcReady)
                  => \A i \in DOMAIN vectors[name_space] :
                        vectors[name_space][i].text \in answer'
        /\ (last'.op = "delete_thought") => \A i \in PcIds \cup {"u1"}, k \in BOOLEAN :
              (delete_thought(i, None, k, TRUE) /\ PcReady)
                  => i \notin DOMAIN vectors'[name_space]
      ]_vars
\* C23: create_entity(X, d, t) on an absent X stores description d and
\* entity_type t, with an empty description and 'UNKNOWN' when they were
\* omitted, and get_entity_details(X) returns the record the graph holds for
\* X, so that a get after the create, with X not changed in between, returns
\* d and t; a name that is not in the graph (never created, or deleted) is
\* answered not found.
C23_CreateGetRoundTrip ==
    [][ /\ (last'.op = "create_entity") =>
              \A n \in Ids, d \in DescIn, t \in TypeIn :
                 (create_entity(n, d, t, TRUE) /\ LightRAGReady /\ ~has_node(kg_nodes, n))
                     => /\ last'.kind = "ok"
                        /\ has_node(kg_nodes', n)
                        /\ kg_nodes'[n].description = (IF d = None THEN << >> ELSE <<d>>)
                        /\ kg_nodes'[n].entity_type = (IF t = None THEN "UNKNOWN" ELSE t)
        /\ (last'.op = "get_entity_details") => \A n \in Ids :
              (EntityDetails(n, TRUE) /\ LightRAGReady)
                  => IF has_node(kg_nodes, n)
                     THEN last'.kind = "ok" /\ answer' = {kg_nodes[n]}
                     ELSE last'.kind = "NotFound" /\ answer' = {}
        /\ (last'.op = "delete_entity") => \A n \in Ids :
              (delete_entity(n, TRUE) /\ LightRAGReady) => ~has_node(kg_nodes', n)
      ]_vars

C23_Witness ==
    /\ last.op = "get_entity_details" /\ last.kind = "ok" /\ nOps = 2
    /\ DOMAIN kg_nodes = {"B"}
    /\ answer = {[description |-> <<"d">>, entity_type |-> "Concept",
                  source_id |-> {"manual"}]}
\* C24: add_thought called without a thought_id (the parameter's default,
\* "Thought") creates a new thought under an id no other thought has, so
\* every such call succeeds.
C24_OmittedIdIsFresh ==
    [][ (last'.op = "add_thought") => \A c \in Contents :
            (  add_thought(c, "Thought", TRUE) /\ tool = "neo4j" /\ Connected
             /\ Cardinality(thoughts) < MaxThoughts)
                => /\ last'.kind = "ok"
                   /\ \E t \in thoughts' \ thoughts :
                         /\ thoughts' = thoughts \cup {t}
                         /\ \A o \in thoughts : o.id # t.id ]_vars
\* C25: LightRAGTool.initialize always returns a status message and never
\* raises, also when the LightRAG instance was not created at construction.
C25_InitializeNeverRaises ==
    last.op = "initialize" => ~last.raised
\* the rows of a result are ordered most-recent-first
MostRecentFirst(r) ==
    \A i \in 1..Len(r), j \in 1..Len(r) : i < j => r[i].timestamp >= r[j].timestamp

\* C26: search_thoughts(q, limit) returns at most `limit` thoughts, each
\* containing q, most recent first; when more than `limit` thoughts match,
\* the ones returned are the `limit` most recent matches.
C26_SearchMostRecentFirst ==
    [][ (last'.op = "search_thoughts" /\ last'.kind = "ok") =>
            \A q \in SearchQueries, l \in Limits :
               (search_thoughts(q, l, TRUE) /\ tool = "neo4j" /\ Connected)
                   => \A r \in answer' :
                         /\ Len(r) <= l
                         /\ \A i \in 1..Len(r) : r[i] \in Matching(q)
                         /\ MostRecentFirst(r)
                         /\ \A m \in Matching(q) :
                               (\E i \in 1..Len(r) : r[i] = m)
                               \/ (/\ Len(r) = l
                                   /\ \A i \in 1..Len(r) : r[i].timestamp >= m.timestamp)
      ]_vars
\* C27: after an initialize_connection call that fails, also on a tool that
\* was connected before, the tool is not initialized and rejects every data
\* operation (_ensure_initialized does not pass).
C27_FailedReconnectRejects ==
    (last.op = "initialize_connection" /\ last.kind # "ok") => ~ensure_initialized
\* C28: every tool in the registry has completed initialization
\* successfully, so /agent/invoke/ never runs an agent against a tool that
\* is not Connected.
C28_RegisteredToolsConnected ==
    /\ \A u \in Users :
          registry[u] # "none" => requests[registry[u]].tool = "Connected"
    /\ last.op = "invoke_agent" => last.kind # "NotReady"

\* the tools with a LightRAG instance built over the user's working directory
ToolsOf(u) ==
    {r \in Requests : /\ requests[r].user = u
                      /\ requests[r].tool \in {"Initializing", "Connected", "Failed"}}

\* C29: for each user at most one LightRAGTool is ever constructed and
\* initialized over that user's working directory, also with several
\* /initialize/ requests for the user in flight.
C29_OneToolPerUser ==
    \A u \in Users : Cardinality(ToolsOf(u)) <= 1
====
